---- MODULE Spec2Model ----
(***************************************************************************)
(* Model of the circuit-drawer label utilities (gate_label,               *)
(* measurement_label, label_dict) and of the classical_jacobian transform. *)
(*                                                                         *)
(* Strings are sequences of characters; a character is a one-character     *)
(* string, and a non-ASCII character is written by its code point:         *)
(*   "U+207B" superscript minus    "U+00B9" superscript one                *)
(*   "U+03D5" phi symbol           "U+221A" square root                    *)
(*   "U+27E8" left angle bracket   "U+27E9" right angle bracket            *)
(***************************************************************************)
EXTENDS Integers, Sequences, FiniteSets, TLC

VARIABLES
    md_order,   \* label_dict merge: the order in which the tables are merged
    md_i,       \* label_dict merge: number of tables merged so far
    md_dict,    \* label_dict merge: the dictionary built so far
    lb_pc,      \* label formatter: "idle" or "returned"
    lb_call,    \* label formatter: the call being made (function, arguments)
    lb_out,     \* label formatter: what the call returned or raised
    cj_interface,  \* classical_jacobian: qnode.interface
    cj_argnum,     \* classical_jacobian: the argnum argument
    cj_fn,         \* classical_jacobian: what classical_jacobian returned
    cj_qtape,      \* classical_jacobian: qnode.qtape, the tape last constructed
    cj_last,       \* classical_jacobian: the latest call of the built callable
    cj_ref         \* classical_jacobian: an earlier call of the built callable

vars == <<md_order, md_i, md_dict, lb_pc, lb_call, lb_out,
          cj_interface, cj_argnum, cj_fn, cj_qtape, cj_last, cj_ref>>

(***************************************************************************)
(* gate_label_data.py: the five source tables and their merge              *)
(***************************************************************************)
non_parametric_qubit_labels ==
    <<"H", "a", "d", "a", "m", "a", "r", "d">> :> <<"H">> @@
    <<"P", "a", "u", "l", "i", "X">> :> <<"X">> @@
    <<"P", "a", "u", "l", "i", "Y">> :> <<"Y">> @@
    <<"P", "a", "u", "l", "i", "Z">> :> <<"Z">> @@
    <<"S", "X">> :> <<"U+221A", "X">> @@
    <<"C", "Z">> :> <<"Z">> @@
    <<"C", "Y">> :> <<"Y">>

parametric_qubit_labels ==
    <<"M", "u", "l", "t", "i", "R", "Z">> :> <<"R", "Z">> @@
    <<"P", "h", "a", "s", "e", "S", "h", "i", "f", "t">> :> <<"R", "U+03D5">> @@
    <<"C", "o", "n", "t", "r", "o", "l", "l", "e", "d", "P", "h", "a", "s", "e", "S", "h", "i", "f", "t">> :> <<"R", "U+03D5">> @@
    <<"C", "P", "h", "a", "s", "e">> :> <<"R", "U+03D5">> @@
    <<"C", "R", "X">> :> <<"R", "X">> @@
    <<"C", "R", "Y">> :> <<"R", "Y">> @@
    <<"C", "R", "o", "t">> :> <<"R", "o", "t">>

matrix_ops_labels ==
    <<"Q", "u", "b", "i", "t", "U", "n", "i", "t", "a", "r", "y">> :> <<"U">> @@
    <<"C", "o", "n", "t", "r", "o", "l", "l", "e", "d", "Q", "u", "b", "i", "t", "U", "n", "i", "t", "a", "r", "y">> :> <<"U">> @@
    <<"D", "i", "a", "g", "o", "n", "a", "l", "Q", "u", "b", "i", "t", "U", "n", "i", "t", "a", "r", "y">> :> <<"U">>

arithmetic_ops_labels ==
    <<"Q", "u", "b", "i", "t", "S", "u", "m">> :> <<"+">>

\* mutant of cv_labels: the quadrature entry is keyed by a name of another table
cv_labels_shared_key ==
    <<"B", "e", "a", "m", "s", "p", "l", "i", "t", "t", "e", "r">> :> <<"B", "S">> @@
    <<"P", "a", "u", "l", "i", "X">> :> <<"x">> @@
    <<"P">> :> <<"p">>

cv_labels ==
    <<"B", "e", "a", "m", "s", "p", "l", "i", "t", "t", "e", "r">> :> <<"B", "S">> @@
    <<"S", "q", "u", "e", "e", "z", "i", "n", "g">> :> <<"S">> @@
    <<"T", "w", "o", "M", "o", "d", "e", "S", "q", "u", "e", "e", "z", "i", "n", "g">> :> <<"S">> @@
    <<"D", "i", "s", "p", "l", "a", "c", "e", "m", "e", "n", "t">> :> <<"D">> @@
    <<"N", "u", "m", "b", "e", "r", "O", "p", "e", "r", "a", "t", "o", "r">> :> <<"n">> @@
    <<"R", "o", "t", "a", "t", "i", "o", "n">> :> <<"R">> @@
    <<"C", "o", "n", "t", "r", "o", "l", "l", "e", "d", "A", "d", "d", "i", "t", "i", "o", "n">> :> <<"X">> @@
    <<"C", "o", "n", "t", "r", "o", "l", "l", "e", "d", "P", "h", "a", "s", "e">> :> <<"Z">> @@
    <<"T", "h", "e", "r", "m", "a", "l", "S", "t", "a", "t", "e">> :> <<"T", "h", "e", "r", "m", "a", "l">> @@
    <<"G", "a", "u", "s", "s", "i", "a", "n", "S", "t", "a", "t", "e">> :> <<"G", "a", "u", "s", "s", "i", "a", "n">> @@
    <<"Q", "u", "a", "d", "r", "a", "t", "i", "c", "P", "h", "a", "s", "e">> :> <<"P">> @@
    <<"C", "u", "b", "i", "c", "P", "h", "a", "s", "e">> :> <<"V">> @@
    <<"X">> :> <<"x">> @@
    <<"P">> :> <<"p">>


label_dicts_list ==
    <<non_parametric_qubit_labels, parametric_qubit_labels, matrix_ops_labels,
      arithmetic_ops_labels, cv_labels>>

\* dict.update: the entries of e are written over those of d
update(d, e) ==
    [k \in (DOMAIN d) \cup (DOMAIN e) |-> IF k \in DOMAIN e THEN e[k] ELSE d[k]]

RECURSIVE merge_tables(_, _)
\* the loop "for d in label_dicts_list: label_dict.update(d)" over the first n tables
merge_tables(tables, n) ==
    IF n = 0 THEN <<>> ELSE update(merge_tables(tables, n - 1), tables[n])

label_dict == merge_tables(label_dicts_list, Len(label_dicts_list))

\* dict.get(key, default)
get(d, key, default) == IF key \in DOMAIN d THEN d[key] ELSE default

(***************************************************************************)
(* Values returned or raised by a call                                     *)
(***************************************************************************)
Str(s) == [ok |-> TRUE, str |-> s]
Raise(e) == [ok |-> FALSE, exc |-> e]

(***************************************************************************)
(* Numbers and their formatting.  A scalar parameter is the float          *)
(* num / Denom; Denom is a power of two, so every such value is exactly    *)
(* representable and the format rounds exactly that value.                 *)
(***************************************************************************)
FracBits == 2
MaxNum == 6
MaxNeg == 1
MaxDecimals == 2
MaxParams == 3

RECURSIVE Pow(_, _)
Pow(b, e) == IF e = 0 THEN 1 ELSE b * Pow(b, e - 1)

Denom == Pow(2, FracBits)

Digit(k) == <<"0", "1", "2", "3", "4", "5", "6", "7", "8", "9">>[k + 1]

RECURSIVE IntStr(_)
\* the decimal digits of a non-negative integer
IntStr(n) == IF n < 10 THEN <<Digit(n)>> ELSE IntStr(n \div 10) \o <<Digit(n % 10)>>

RECURSIVE PadDigits(_, _)
\* the last w decimal digits of n, zero-padded
PadDigits(n, w) ==
    IF w = 0 THEN <<>> ELSE PadDigits(n \div 10, w - 1) \o <<Digit(n % 10)>>

\* mutant of RoundHalfEven: the digits beyond the last place are cut off
RoundTruncating(a, b) == a \div b

\* the integer nearest to a / b (a >= 0, b > 0), a tie going to the even one
RoundHalfEven(a, b) ==
    LET q == a \div b
        r == a % b
    IN  IF 2 * r > b \/ (2 * r = b /\ q % 2 = 1) THEN q + 1 ELSE q

\* format(num / Denom, ".<d>f"): sign, integer digits, and, when d > 0, a
\* point and exactly d fraction digits
format_float(num, d) ==
    LET m == IF num < 0 THEN -num ELSE num
        q == RoundHalfEven(m * Pow(10, d), Denom)
        whole == IntStr(q \div Pow(10, d))
        frac == IF d = 0 THEN <<>> ELSE <<".">> \o PadDigits(q % Pow(10, d), d)
    IN  (IF num < 0 THEN <<"-">> ELSE <<>>) \o whole \o frac

\* A parameter: shape <<>> for a scalar (num is its value), a non-empty shape
\* for an array.
Scalar(n) == [shape |-> <<>>, num |-> n]
Matrix == [shape |-> <<2, 2>>, num |-> 0]

\* mutant of shape: every parameter is taken for a scalar
shape_scalar(p) == <<>>

shape(p) == p.shape

\* f"{p:.{decimal_places}f}": an array of one or more dimensions does not
\* accept a format specification
format_f(p, decimal_places) ==
    IF Len(shape(p)) = 0
        THEN Str(format_float(p.num, decimal_places))
        ELSE Raise("TypeError")

RECURSIVE join_f(_, _, _)
\* ",".join(f"{p:.{decimal_places}f}" for p in params[i..])
join_f(params, i, decimal_places) ==
    LET x == format_f(params[i], decimal_places)
    IN  IF ~x.ok THEN x
        ELSE IF i = Len(params) THEN x
        ELSE LET rest == join_f(params, i + 1, decimal_places)
             IN  IF ~rest.ok THEN rest ELSE Str(x.str \o <<",">> \o rest.str)

(***************************************************************************)
(* gate_label.py: gate_label                                               *)
(***************************************************************************)
InverseSuffix == <<"U+207B", "U+00B9">>

\* mutant of gate_label: the early return for include_parameters=False is missing
gate_label_always_parameters(op, include_parameters, decimal_places) ==
    LET base == get(label_dict, op.base_name, op.base_name)
        end == IF op.inverse THEN InverseSuffix ELSE <<>>
        params == op.parameters
    IN  IF Len(params) = 0 THEN Str(base \o end)
        ELSE IF Len(params) = 1
            THEN IF Len(shape(params[1])) # 0 THEN Str(base \o end)
                 ELSE LET x == format_f(params[1], decimal_places)
                      IN  IF ~x.ok THEN x
                          ELSE Str(base \o <<"(">> \o x.str \o <<")">> \o end)
        ELSE LET param_string == join_f(params, 1, decimal_places)
             IN  IF ~param_string.ok THEN param_string
                 ELSE Str(base \o <<"(">> \o param_string.str \o <<")">> \o end)

gate_label(op, include_parameters, decimal_places) ==
    LET base == get(label_dict, op.base_name, op.base_name)
        end == IF op.inverse THEN InverseSuffix ELSE <<>>
        params == op.parameters
    IN  IF ~include_parameters THEN Str(base \o end)
        ELSE IF Len(params) = 0 THEN Str(base \o end)
        ELSE IF Len(params) = 1
            THEN IF Len(shape(params[1])) # 0 THEN Str(base \o end)
                 ELSE LET x == format_f(params[1], decimal_places)
                      IN  IF ~x.ok THEN x
                          ELSE Str(base \o <<"(">> \o x.str \o <<")">> \o end)
        ELSE LET param_string == join_f(params, 1, decimal_places)
             IN  IF ~param_string.ok THEN param_string
                 ELSE Str(base \o <<"(">> \o param_string.str \o <<")">> \o end)

(***************************************************************************)
(* gate_label.py: measurement_label                                        *)
(***************************************************************************)
\* ObservableReturnTypes: the members of the enumeration, each with its name
Expectation == [name |-> <<"E", "x", "p", "e", "c", "t", "a", "t", "i", "o", "n">>]
Variance == [name |-> <<"V", "a", "r", "i", "a", "n", "c", "e">>]
Sample == [name |-> <<"S", "a", "m", "p", "l", "e">>]
Probability == [name |-> <<"P", "r", "o", "b", "a", "b", "i", "l", "i", "t", "y">>]
State == [name |-> <<"S", "t", "a", "t", "e">>]
ObservableReturnTypes == {Sample, Variance, Expectation, Probability, State}

RECURSIVE join_int(_, _)
\* "".join([f"{int(i)}" for i in state[k..]])
join_int(state, k) ==
    IF k > Len(state) THEN <<>> ELSE IntStr(state[k]) \o join_int(state, k + 1)

Ket == <<"|">>
Bra == <<"U+27E9", "U+27E8">>

\* mutant of measurement_label: the generic expectation label is built from the
\* observable's resolved name (the statements after the fixed return are run)
measurement_label_named(obs) ==
    IF obs.return_type = Expectation
        THEN IF obs.obs.cls = "Projector"
                 THEN LET state == obs.obs.data[1]
                          state_str == join_int(state, 1)
                      IN  Str(Ket \o state_str \o Bra \o state_str \o Ket)
             ELSE IF obs.obs.cls = "FockStateProjector"
                 THEN LET n == IntStr(obs.obs.data[1])
                      IN  Str(Ket \o n \o Bra \o n \o Ket)
             ELSE LET name == get(label_dict, obs.obs.name, obs.obs.name)
                  IN  Str(<<"U+27E8">> \o name \o <<"U+27E9">>)
    ELSE IF obs.return_type = Variance
        THEN LET name == get(label_dict, obs.obs.name, obs.obs.name)
             IN  Str(<<"V", "a", "r", "[">> \o name \o <<"]">>)
    ELSE Str(obs.return_type.name)

\* mutant of measurement_label: the variance label uses the observable's name
\* without looking it up in label_dict
measurement_label_raw_name(obs) ==
    IF obs.return_type = Expectation
        THEN IF obs.obs.cls = "Projector"
                 THEN LET state == obs.obs.data[1]
                          state_str == join_int(state, 1)
                      IN  Str(Ket \o state_str \o Bra \o state_str \o Ket)
             ELSE IF obs.obs.cls = "FockStateProjector"
                 THEN LET n == IntStr(obs.obs.data[1])
                      IN  Str(Ket \o n \o Bra \o n \o Ket)
             ELSE Str(<<"U+27E8", "n", "U+27E9">>)
    ELSE IF obs.return_type = Variance
        THEN Str(<<"V", "a", "r", "[">> \o obs.obs.name \o <<"]">>)
    ELSE Str(obs.return_type.name)

measurement_label(obs) ==
    IF obs.return_type = Expectation
        THEN IF obs.obs.cls = "Projector"
                 THEN LET state == obs.obs.data[1]
                          state_str == join_int(state, 1)
                      IN  Str(Ket \o state_str \o Bra \o state_str \o Ket)
             ELSE IF obs.obs.cls = "FockStateProjector"
                 THEN LET n == IntStr(obs.obs.data[1])
                      IN  Str(Ket \o n \o Bra \o n \o Ket)
             ELSE Str(<<"U+27E8", "n", "U+27E9">>)
    ELSE IF obs.return_type = Variance
        THEN LET name == get(label_dict, obs.obs.name, obs.obs.name)
             IN  Str(<<"V", "a", "r", "[">> \o name \o <<"]">>)
    ELSE Str(obs.return_type.name)

(***************************************************************************)
(* The inputs of the label formatter                                       *)
(***************************************************************************)
MaxWires == 2
MaxFock == 12

RECURSIVE SeqsUpTo(_, _)
\* the sequences over S of length at most n
SeqsUpTo(S, n) ==
    IF n = 0 THEN {<<>>}
    ELSE LET shorter == SeqsUpTo(S, n - 1)
         IN  shorter \cup {Append(s, x) : s \in {t \in shorter : Len(t) = n - 1}, x \in S}

Params == {Scalar(n) : n \in (-MaxNeg)..MaxNum} \cup {Matrix}

GateNames ==
    { <<"P", "a", "u", "l", "i", "X">>,
      <<"P", "h", "a", "s", "e", "S", "h", "i", "f", "t">>,
      <<"Q", "u", "b", "i", "t", "U", "n", "i", "t", "a", "r", "y">>,
      <<"R", "X">> }

Operations ==
    [base_name : GateNames, inverse : BOOLEAN, parameters : SeqsUpTo(Params, MaxParams)]

ProjectorName == <<"P", "r", "o", "j", "e", "c", "t", "o", "r">>
FockStateProjectorName ==
    <<"F", "o", "c", "k", "S", "t", "a", "t", "e", "P", "r", "o", "j", "e", "c", "t", "o", "r">>

ObservableNames ==
    { <<"P", "a", "u", "l", "i", "Z">>,
      <<"H", "e", "r", "m", "i", "t", "i", "a", "n">>,
      <<"N", "u", "m", "b", "e", "r", "O", "p", "e", "r", "a", "t", "o", "r">>,
      <<"X">> }

Observables ==
    {[cls |-> "Projector", name |-> ProjectorName, data |-> <<s>>] :
        s \in SeqsUpTo({0, 1}, MaxWires) \ {<<>>}}
    \cup {[cls |-> "FockStateProjector", name |-> FockStateProjectorName, data |-> <<n>>] :
        n \in 0..MaxFock}
    \cup {[cls |-> "Observable", name |-> nm, data |-> <<>>] : nm \in ObservableNames}

Measurements == [return_type : ObservableReturnTypes, obs : Observables]

(***************************************************************************)
(* State machines                                                          *)
(***************************************************************************)
NoCall == [fn |-> "none"]
NoValue == [ok |-> TRUE, str |-> <<>>]

\* Python's None
None == [kind |-> "None"]
\* classical_jacobian has not been called yet
NotBuilt == [kind |-> "NotBuilt"]
\* the built callable has not been called
NotCalled == [set |-> FALSE]

md_vars == <<md_order, md_i, md_dict>>
lb_vars == <<lb_pc, lb_call, lb_out>>
cj_vars == <<cj_interface, cj_argnum, cj_fn, cj_qtape, cj_last, cj_ref>>

CjIdle ==
    /\ cj_interface = "none" /\ cj_argnum = None /\ cj_fn = NotBuilt
    /\ cj_qtape = None /\ cj_last = NotCalled /\ cj_ref = NotCalled

MdIdle == md_order = <<>> /\ md_i = 0 /\ md_dict = <<>>
LbIdle == lb_pc = "idle" /\ lb_call = NoCall /\ lb_out = NoValue

\* ---- the import of gate_label_data: label_dict is built table by table ----
Orders ==
    {o \in [1..Len(label_dicts_list) -> 1..Len(label_dicts_list)] :
        \A i, j \in DOMAIN o : o[i] = o[j] => i = j}

DictInit ==
    /\ md_order \in Orders
    /\ md_i = 0
    /\ md_dict = <<>>
    /\ LbIdle
    /\ CjIdle

UpdateStep ==
    /\ md_order # <<>>
    /\ md_i < Len(md_order)
    /\ md_i' = md_i + 1
    /\ md_dict' = update(md_dict, label_dicts_list[md_order[md_i + 1]])
    /\ UNCHANGED <<md_order, lb_vars, cj_vars>>

DictNext == UpdateStep

SpecDict == DictInit /\ [][DictNext]_vars

\* ---- calls of the label formatter ----
LabelInit == LbIdle /\ MdIdle /\ CjIdle

CallGateLabel ==
    /\ lb_pc = "idle"
    /\ \E op \in Operations, include_parameters \in BOOLEAN,
          decimal_places \in 0..MaxDecimals :
        /\ lb_call' = [fn |-> "gate_label", op |-> op,
                       include_parameters |-> include_parameters,
                       decimal_places |-> decimal_places]
        /\ lb_out' = gate_label(op, include_parameters, decimal_places)
    /\ lb_pc' = "returned"
    /\ UNCHANGED <<md_vars, cj_vars>>

CallMeasurementLabel ==
    /\ lb_pc = "idle"
    /\ \E obs \in Measurements :
        /\ lb_call' = [fn |-> "measurement_label", obs |-> obs]
        /\ lb_out' = measurement_label(obs)
    /\ lb_pc' = "returned"
    /\ UNCHANGED <<md_vars, cj_vars>>

LabelReturn ==
    /\ lb_pc = "returned"
    /\ lb_pc' = "idle"
    /\ lb_call' = NoCall
    /\ lb_out' = NoValue
    /\ UNCHANGED <<md_vars, cj_vars>>

LabelNext == CallGateLabel \/ CallMeasurementLabel \/ LabelReturn

SpecLabel == LabelInit /\ [][LabelNext]_vars


(***************************************************************************)
(* Properties of label_dict and of the label formatter                     *)
(***************************************************************************)
\* the source tables that hold the name
TablesWith(name) == {t \in DOMAIN label_dicts_list : name \in DOMAIN label_dicts_list[t]}

\* the symbol-table entry of a name when some table holds it, else the name
Resolved(name) ==
    IF TablesWith(name) = {} THEN name
    ELSE label_dicts_list[CHOOSE t \in TablesWith(name) : TRUE][name]

Occurs(sub, s) ==
    \E i \in 1..(Len(s) - Len(sub) + 1) : SubSeq(s, i, i + Len(sub) - 1) = sub

HasChar(s, c) == \E i \in DOMAIN s : s[i] = c

IsDigit(c) == \E k \in 0..9 : Digit(k) = c

RECURSIVE ParseNat(_)
\* the number written by a sequence of decimal digits
ParseNat(s) ==
    IF s = <<>> THEN 0
    ELSE 10 * ParseNat(SubSeq(s, 1, Len(s) - 1))
         + (CHOOSE k \in 0..9 : Digit(k) = s[Len(s)])

\* t writes the number num / Denom in fixed point with exactly d fraction
\* digits (no point when d = 0), off by at most half a unit of the last digit
IsFixedPoint(t, num, d) ==
    LET neg == num < 0
        u == IF t # <<>> /\ t[1] = "-" THEN Tail(t) ELSE t
        w == Len(u) - (IF d = 0 THEN 0 ELSE d + 1)
        whole == SubSeq(u, 1, w)
        frac == SubSeq(u, Len(u) - d + 1, Len(u))
        mag == IF neg THEN -num ELSE num
    IN  /\ (t # <<>> /\ t[1] = "-") <=> neg
        /\ w >= 1
        /\ d > 0 => u[w + 1] = "."
        /\ \A i \in DOMAIN whole : IsDigit(whole[i])
        /\ \A i \in DOMAIN frac : IsDigit(frac[i])
        /\ Len(whole) > 1 => whole[1] # "0"
        /\ LET v == ParseNat(whole \o frac)
               e == v * Denom - mag * Pow(10, d)
           IN  2 * e <= Denom /\ -2 * e <= Denom

\* s is base, then (t1,t2,...,tn) with ti the i-th parameter in fixed point,
\* then suffix
RECURSIVE IsParamList(_, _, _, _)
IsParamList(t, params, i, d) ==
    IF i = Len(params)
        THEN Len(params[i].shape) = 0 /\ IsFixedPoint(t, params[i].num, d)
    ELSE \E c \in DOMAIN t :
            /\ t[c] = ","
            /\ Len(params[i].shape) = 0
            /\ IsFixedPoint(SubSeq(t, 1, c - 1), params[i].num, d)
            /\ IsParamList(SubSeq(t, c + 1, Len(t)), params, i + 1, d)

SuffixOf(op) == IF op.inverse THEN <<"U+207B", "U+00B9">> ELSE <<>>

\* s = base + "(" + t + ")" + suffix for a non-empty text t
IsWrapped(s, base, suffix) ==
    LET lo == Len(base) + 1
        hi == Len(s) - Len(suffix)
    IN  /\ hi > lo + 1
        /\ SubSeq(s, 1, Len(base)) = base
        /\ s[lo] = "("
        /\ s[hi] = ")"
        /\ SubSeq(s, hi + 1, Len(s)) = suffix

\* the text t between the parentheses of a wrapped s
Inner(s, base, suffix) == SubSeq(s, Len(base) + 2, Len(s) - Len(suffix) - 1)

GateCall == lb_pc = "returned" /\ lb_call.fn = "gate_label"
MeasCall == lb_pc = "returned" /\ lb_call.fn = "measurement_label"

\* C3: with include_parameters=False the label of every gate, whatever its
\* parameters, is the resolved base followed by the inverse suffix iff the gate
\* is inverted, and holds no parameter text.
C3_NoParameters ==
    (GateCall /\ ~lb_call.include_parameters) =>
        /\ lb_out.ok
        /\ lb_out.str = Resolved(lb_call.op.base_name) \o SuffixOf(lb_call.op)
        /\ ~HasChar(lb_out.str, "(") /\ ~HasChar(lb_out.str, ")")
        /\ \A i \in DOMAIN lb_out.str : ~IsDigit(lb_out.str[i])

C3_Witness ==
    /\ GateCall /\ ~lb_call.include_parameters
    /\ lb_call.op.base_name = <<"P", "h", "a", "s", "e", "S", "h", "i", "f", "t">>
    /\ lb_call.op.inverse
    /\ Len(lb_call.op.parameters) = 2
    /\ lb_out = Str(<<"R", "U+03D5", "U+207B", "U+00B9">>)

\* C4: a gate whose one parameter is an array gets the same label with and
\* without include_parameters, for every decimal_places, inverted or not.
C4_MatrixSuppressed ==
    (GateCall /\ Len(lb_call.op.parameters) = 1
        /\ Len(lb_call.op.parameters[1].shape) > 0) =>
        /\ lb_out.ok
        /\ \A inc \in BOOLEAN, d \in 0..MaxDecimals :
              gate_label(lb_call.op, inc, d) = lb_out
        /\ lb_out.str = Resolved(lb_call.op.base_name) \o SuffixOf(lb_call.op)

C4_Witness ==
    /\ GateCall /\ lb_call.include_parameters
    /\ lb_call.op.base_name = <<"Q", "u", "b", "i", "t", "U", "n", "i", "t", "a", "r", "y">>
    /\ lb_call.op.parameters = <<Matrix>>
    /\ lb_call.op.inverse
    /\ lb_out = Str(<<"U", "U+207B", "U+00B9">>)

\* C5: a gate with one scalar parameter p and include_parameters=True is
\* labelled base(p)suffix, p in fixed point with exactly decimal_places
\* fraction digits; the inverse suffix follows the closing parenthesis.
C5_SingleScalar ==
    (GateCall /\ lb_call.include_parameters /\ Len(lb_call.op.parameters) = 1
        /\ Len(lb_call.op.parameters[1].shape) = 0) =>
        /\ lb_out.ok
        /\ IsWrapped(lb_out.str, Resolved(lb_call.op.base_name), SuffixOf(lb_call.op))
        /\ IsFixedPoint(Inner(lb_out.str, Resolved(lb_call.op.base_name),
                              SuffixOf(lb_call.op)),
                        lb_call.op.parameters[1].num, lb_call.decimal_places)

C5_Witness ==
    /\ GateCall /\ lb_call.include_parameters
    /\ lb_call.op.base_name = <<"R", "X">>
    /\ lb_call.op.inverse
    /\ lb_call.op.parameters = <<Scalar(5)>>
    /\ lb_call.decimal_places = 1
    /\ lb_out.ok
    /\ lb_out.str[1] = "R" /\ lb_out.str[3] = "(" /\ lb_out.str[Len(lb_out.str)] = "U+00B9"

\* C6 (as claimed): a gate with two or more parameters and
\* include_parameters=True always gets a label, base(p1,...,pn)suffix, whatever
\* the dimensions of the parameters.
C6_MultiAlwaysLabelled ==
    (GateCall /\ lb_call.include_parameters /\ Len(lb_call.op.parameters) >= 2) =>
        /\ lb_out.ok
        /\ IsWrapped(lb_out.str, Resolved(lb_call.op.base_name), SuffixOf(lb_call.op))
        /\ (\A i \in DOMAIN lb_call.op.parameters :
                Len(lb_call.op.parameters[i].shape) = 0) =>
              IsParamList(Inner(lb_out.str, Resolved(lb_call.op.base_name),
                                SuffixOf(lb_call.op)),
                          lb_call.op.parameters, 1, lb_call.decimal_places)

\* The part of C6 about scalar parameters: two or more scalar parameters are
\* rendered in order, comma-joined without spaces, each in fixed point.
C6_ScalarsJoined ==
    (GateCall /\ lb_call.include_parameters /\ Len(lb_call.op.parameters) >= 2
        /\ \A i \in DOMAIN lb_call.op.parameters :
              Len(lb_call.op.parameters[i].shape) = 0) =>
        /\ lb_out.ok
        /\ IsWrapped(lb_out.str, Resolved(lb_call.op.base_name), SuffixOf(lb_call.op))
        /\ IsParamList(Inner(lb_out.str, Resolved(lb_call.op.base_name),
                              SuffixOf(lb_call.op)),
                        lb_call.op.parameters, 1, lb_call.decimal_places)

\* The failure behind C6: with two or more parameters, one of them an array,
\* the call raises TypeError.
C6_ArrayRaises ==
    (GateCall /\ lb_call.include_parameters /\ Len(lb_call.op.parameters) >= 2
        /\ \E i \in DOMAIN lb_call.op.parameters :
              Len(lb_call.op.parameters[i].shape) > 0) =>
        lb_out = Raise("TypeError")

\* C7 (as claimed): an Expectation label is a ket-bra of the basis-state
\* digits for a Projector, a ket-bra of the integer for a FockStateProjector,
\* the fixed generic symbol otherwise, and never holds the observable's
\* resolved name.
ExpectationShape ==
    LET o == lb_call.obs.obs
        ket(s) == <<"|">> \o s \o <<"U+27E9", "U+27E8">> \o s \o <<"|">>
    IN  /\ lb_out.ok
        /\ o.cls = "Projector" =>
              lb_out.str = ket([i \in DOMAIN o.data[1] |-> Digit(o.data[1][i])])
        /\ o.cls = "FockStateProjector" =>
              LET len == (Len(lb_out.str) - 4) \div 2
                  s == SubSeq(lb_out.str, 2, len + 1)
              IN  /\ len >= 1
                  /\ \A i \in DOMAIN s : IsDigit(s[i])
                  /\ len > 1 => s[1] # "0"
                  /\ ParseNat(s) = o.data[1]
                  /\ lb_out.str = ket(s)
        /\ o.cls \notin {"Projector", "FockStateProjector"} =>
              lb_out.str = <<"U+27E8", "n", "U+27E9">>

C7_NameNeverAppears ==
    (MeasCall /\ lb_call.obs.return_type.name = <<"E", "x", "p", "e", "c", "t", "a", "t", "i", "o", "n">>) =>
        /\ ExpectationShape
        /\ ~Occurs(Resolved(lb_call.obs.obs.name), lb_out.str)

\* C7 (amended): as above, but the resolved name is absent from the label
\* unless that name is "n", the letter of the fixed generic symbol.
C7_ExpectationLabel ==
    (MeasCall /\ lb_call.obs.return_type.name = <<"E", "x", "p", "e", "c", "t", "a", "t", "i", "o", "n">>) =>
        /\ ExpectationShape
        /\ Resolved(lb_call.obs.obs.name) # <<"n">> =>
              ~Occurs(Resolved(lb_call.obs.obs.name), lb_out.str)

C7_Witness ==
    /\ MeasCall /\ lb_call.obs.return_type = Expectation
    /\ lb_call.obs.obs.cls = "Observable"
    /\ lb_call.obs.obs.name = <<"P", "a", "u", "l", "i", "Z">>
    /\ lb_out = Str(<<"U+27E8", "n", "U+27E9">>)

\* C8: a Variance label is Var[resolved name]; the label of a return type
\* other than Expectation and Variance is the name of that return type,
\* whatever the observable.
C8_VarianceAndOther ==
    MeasCall =>
        LET rt == lb_call.obs.return_type.name
        IN  /\ rt = <<"V", "a", "r", "i", "a", "n", "c", "e">> =>
                  lb_out = Str(<<"V", "a", "r", "[">>
                               \o Resolved(lb_call.obs.obs.name) \o <<"]">>)
            /\ rt \notin {<<"V", "a", "r", "i", "a", "n", "c", "e">>,
                          <<"E", "x", "p", "e", "c", "t", "a", "t", "i", "o", "n">>} =>
                  lb_out = Str(rt)

C8_Witness ==
    /\ MeasCall /\ lb_call.obs.return_type = Variance
    /\ lb_call.obs.obs.name = <<"P", "a", "u", "l", "i", "Z">>
    /\ lb_out = Str(<<"V", "a", "r", "[", "Z", "]">>)

\* C10: the keys of the five source tables are pairwise disjoint, and in
\* whatever order the tables are merged the merged dictionary holds exactly the
\* union of their entries, every key with the value of its one source table.
C10_DisjointMerge ==
    /\ \A a, b \in DOMAIN label_dicts_list :
          a # b => (DOMAIN label_dicts_list[a]) \cap (DOMAIN label_dicts_list[b]) = {}
    /\ (md_order # <<>> /\ md_i = Len(md_order)) =>
          /\ DOMAIN md_dict = UNION {DOMAIN label_dicts_list[t] : t \in DOMAIN label_dicts_list}
          /\ \A t \in DOMAIN label_dicts_list : \A k \in DOMAIN label_dicts_list[t] :
                md_dict[k] = label_dicts_list[t][k]
          /\ md_dict = label_dict

C10_Witness ==
    /\ md_order = <<5, 4, 3, 2, 1>>
    /\ md_i = 5
    /\ Cardinality(DOMAIN md_dict) = 32
    /\ md_dict[<<"X">>] = <<"x">>
    /\ md_dict[<<"C", "Z">>] = <<"Z">>

(***************************************************************************)
(* classical_jacobian.py                                                   *)
(*                                                                         *)
(* Numbers are differentiated as the backends do it, by carrying with      *)
(* every value its derivative with respect to each positional argument of  *)
(* the QNode: a value is [val, grad, boxed], boxed telling that it depends *)
(* on a differentiated argument.                                           *)
(***************************************************************************)
MaxArg == 1

\* the positional arguments of the QNode
ArgNames == <<"x", "y">>
NumArgs == Len(ArgNames)

Const(c) == [val |-> c, grad |-> [i \in 1..NumArgs |-> 0], boxed |-> FALSE]
\* the n-th positional argument (counted from 0), with value v
Arg(n, v) ==
    [val |-> v, grad |-> [i \in 1..NumArgs |-> IF i = n + 1 THEN 1 ELSE 0], boxed |-> TRUE]
Mul(a, b) ==
    [val |-> a.val * b.val,
     grad |-> [i \in 1..NumArgs |-> a.val * b.grad[i] + b.val * a.grad[i]],
     boxed |-> a.boxed \/ b.boxed]

\* The quantum function of the QNode:
\*     def circuit(x, y, scale=1):
\*         qml.RX(scale * x, wires=0); qml.RY(y ** 2, wires=1)
\*         qml.RZ(x * y, wires=1);     qml.RX(1, wires=0)
\* It returns the gate parameters in the order of the gates.
circuit(args, kwargs) ==
    LET x == Arg(0, args[1])
        y == Arg(1, args[2])
        scale == Const(get(kwargs, "scale", 1))
    IN  <<Mul(scale, x), Mul(y, y), Mul(x, y), Const(1)>>

\* qnode.construct(args, kwargs): the tape of the quantum function run on the
\* arguments; a gate parameter is trainable when it depends on an argument
construct(args, kwargs) ==
    [kind |-> "QuantumTape", params |-> circuit(args, kwargs),
     args |-> args, kwargs |-> kwargs]

\* qtape.get_parameters(trainable_only=...)
get_parameters(qtape, trainable_only) ==
    SelectSeq(qtape.params, LAMBDA p : p.boxed \/ ~trainable_only)

\* kwargs.pop(key, default): the value and the dictionary left
pop(kwargs, key, default) ==
    [value |-> get(kwargs, key, default),
     rest |-> [k \in (DOMAIN kwargs) \ {key} |-> kwargs[k]]]

\* mutant of classical_preprocessing: the parameters are read from the tape
\* of the previous construction, before the QNode is constructed again
classical_preprocessing_stale(qtape, args, kwargs) ==
    LET popped == pop(kwargs, "_trainable_only", TRUE)
        tape == construct(args, popped.rest)
    IN  [qtape |-> tape,
         out |-> IF qtape = None THEN <<>> ELSE get_parameters(qtape, popped.value)]

\* classical_preprocessing(*args, **kwargs), run when qnode.qtape is qtape:
\* the tape it leaves in qnode.qtape and the parameters it returns
classical_preprocessing(qtape, args, kwargs) ==
    LET popped == pop(kwargs, "_trainable_only", TRUE)
        tape == construct(args, popped.rest)
    IN  [qtape |-> tape, out |-> get_parameters(tape, popped.value)]

\* argnum: None, an integer, or a sequence of integers
IntArg(i) == [kind |-> "int", i |-> i]
SeqArg(s) == [kind |-> "seq", seq |-> s]
isscalar(argnum) == argnum.kind = "int"

\* The Jacobian of the returned parameters with respect to argument n
\* (counted from 0): one derivative per parameter.  wrt records the argument.
Array(params, n) == [type |-> "array", wrt |-> n, d |-> [j \in DOMAIN params |-> params[j].grad[n + 1]]]
Tuple(items) == [type |-> "tuple", items |-> items]
\* qml.jacobian over all arguments: the per-argument arrays of scalar
\* arguments are stacked into one array
Stacked(items) == [type |-> "stacked", items |-> items]
AllArgs(params) == [n \in 1..NumArgs |-> Array(params, n - 1)]

\* what a call of the built callable gives: its result, the tape left in
\* qnode.qtape, and the (args, kwargs) of every qnode.construct it made
Outcome(result, qtape, constructs) ==
    [result |-> result, qtape |-> qtape, constructs |-> constructs]
ConstructOf(tape) == [args |-> tape.args, kwargs |-> tape.kwargs]

RECURSIVE autograd_each(_, _, _, _, _)
\* tuple(qml.jacobian(classical_preprocessing, argnum=i)(*args, **kwargs)
\*       for i in argnum[k..]): one differentiation pass per index
autograd_each(seq, k, qtape, args, kwargs) ==
    IF k > Len(seq) THEN Outcome(<<>>, qtape, <<>>)
    ELSE LET p == classical_preprocessing(qtape, args, kwargs)
             rest == autograd_each(seq, k + 1, p.qtape, args, kwargs)
         IN  Outcome(<<Array(p.out, seq[k])>> \o rest.result, rest.qtape,
                     <<ConstructOf(p.qtape)>> \o rest.constructs)

_jacobian_autograd(argnum, qtape, args, kwargs) ==
    IF argnum = None
        THEN LET p == classical_preprocessing(qtape, args, kwargs)
             IN  Outcome(Stacked(AllArgs(p.out)), p.qtape, <<ConstructOf(p.qtape)>>)
    ELSE IF isscalar(argnum)
        THEN LET p == classical_preprocessing(qtape, args, kwargs)
             IN  Outcome(Array(p.out, argnum.i), p.qtape, <<ConstructOf(p.qtape)>>)
    ELSE LET each == autograd_each(argnum.seq, 1, qtape, args, kwargs)
         IN  Outcome(Tuple(each.result), each.qtape, each.constructs)

\* mutant of _jacobian_torch: the entries of a list argnum are taken in the
\* order of the arguments, not in the order of argnum
_jacobian_torch_unordered(argnum, qtape, args, kwargs) ==
    LET p == classical_preprocessing(qtape, args, <<>>)
        jac == AllArgs(p.out)
        picked == SelectSeq(jac, LAMBDA a : \E k \in DOMAIN argnum.seq : argnum.seq[k] = a.wrt)
        result == IF argnum = None THEN Tuple(jac)
                  ELSE IF isscalar(argnum) THEN jac[argnum.i + 1]
                  ELSE Tuple(picked)
    IN  Outcome(result, p.qtape, <<ConstructOf(p.qtape)>>)

_jacobian_torch(argnum, qtape, args, kwargs) ==
    LET p == classical_preprocessing(qtape, args, <<>>)
        jac == AllArgs(p.out)
        result == IF argnum = None THEN Tuple(jac)
                  ELSE IF isscalar(argnum) THEN jac[argnum.i + 1]
                  ELSE Tuple([k \in DOMAIN argnum.seq |-> jac[argnum.seq[k] + 1]])
    IN  Outcome(result, p.qtape, <<ConstructOf(p.qtape)>>)

\* mutant of _jacobian_jax: the _trainable_only entry is not written, the
\* caller's keyword arguments are passed on as they are
_jacobian_jax_flag_unset(argnum, qtape, args, kwargs) ==
    LET p == classical_preprocessing(qtape, args, kwargs)
        result == IF isscalar(argnum) THEN Array(p.out, argnum.i)
                  ELSE Tuple([k \in DOMAIN argnum.seq |-> Array(p.out, argnum.seq[k])])
    IN  Outcome(result, p.qtape, <<ConstructOf(p.qtape)>>)

_jacobian_jax(argnum, qtape, args, kwargs) ==
    LET kwargs1 == update(kwargs, [_trainable_only |-> FALSE])
        p == classical_preprocessing(qtape, args, kwargs1)
        result == IF isscalar(argnum) THEN Array(p.out, argnum.i)
                  ELSE Tuple([k \in DOMAIN argnum.seq |-> Array(p.out, argnum.seq[k])])
    IN  Outcome(result, p.qtape, <<ConstructOf(p.qtape)>>)

_jacobian_tf(argnum, qtape, args, kwargs) ==
    LET sub_args == IF isscalar(argnum) THEN argnum.i
                    ELSE IF argnum = None THEN [n \in 1..NumArgs |-> n - 1]
                    ELSE argnum.seq
        p == classical_preprocessing(qtape, args, kwargs)
        gate_params == p.out
        jac == IF isscalar(argnum) THEN Array(gate_params, sub_args)
               ELSE Tuple([k \in DOMAIN sub_args |-> Array(gate_params, sub_args[k])])
    IN  Outcome(jac, p.qtape, <<ConstructOf(p.qtape)>>)

\* the closure _jacobian that classical_jacobian returns
Closure(interface, argnum) == [kind |-> "function", interface |-> interface, argnum |-> argnum]

classical_jacobian(interface, argnum) ==
    IF interface = "autograd" THEN Closure("autograd", argnum)
    ELSE IF interface = "torch" THEN Closure("torch", argnum)
    ELSE IF interface = "jax"
        THEN Closure("jax", IF argnum = None THEN IntArg(0) ELSE argnum)
    ELSE IF interface = "tf" THEN Closure("tf", argnum)
    ELSE None

\* a call fn(*args, **kwargs) of the closure
_jacobian(fn, qtape, args, kwargs) ==
    IF fn.interface = "autograd" THEN _jacobian_autograd(fn.argnum, qtape, args, kwargs)
    ELSE IF fn.interface = "torch" THEN _jacobian_torch(fn.argnum, qtape, args, kwargs)
    ELSE IF fn.interface = "jax" THEN _jacobian_jax(fn.argnum, qtape, args, kwargs)
    ELSE _jacobian_tf(fn.argnum, qtape, args, kwargs)

\* ---- inputs ----
Interfaces == {"autograd", "torch", "jax", "tf", "none"}
Argnums ==
    {None} \cup {IntArg(i) : i \in 0..(NumArgs - 1)}
    \cup {SeqArg(s) : s \in {t \in SeqsUpTo(0..(NumArgs - 1), NumArgs) :
                                  t # <<>> /\ \A i, j \in DOMAIN t : t[i] = t[j] => i = j}}
ArgTuples == [1..NumArgs -> 0..MaxArg]
Kwargs ==
    {<<>>, [scale |-> 2], [_trainable_only |-> FALSE], [_trainable_only |-> TRUE]}

\* ---- state machine ----
JacInit ==
    /\ cj_interface \in Interfaces
    /\ cj_argnum \in Argnums
    /\ cj_fn = NotBuilt
    /\ cj_qtape = None
    /\ cj_last = NotCalled
    /\ cj_ref = NotCalled
    /\ MdIdle /\ LbIdle

\* jac_fn = classical_jacobian(qnode, argnum)
Build ==
    /\ cj_fn = NotBuilt
    /\ cj_fn' = classical_jacobian(cj_interface, cj_argnum)
    /\ UNCHANGED <<cj_interface, cj_argnum, cj_qtape, cj_last, cj_ref, md_vars, lb_vars>>

\* jac_fn(*args, **kwargs); one earlier call, any of them, is kept in cj_ref
Call ==
    /\ cj_fn \notin {NotBuilt, None}
    /\ \E args \in ArgTuples, kwargs \in Kwargs :
        LET o == _jacobian(cj_fn, cj_qtape, args, kwargs)
        IN  /\ cj_last' = [set |-> TRUE, args |-> args, kwargs |-> kwargs,
                           result |-> o.result, constructs |-> o.constructs]
            /\ cj_qtape' = o.qtape
    /\ cj_ref' \in IF cj_ref = NotCalled THEN {cj_ref, cj_last} ELSE {cj_ref}
    /\ UNCHANGED <<cj_interface, cj_argnum, cj_fn, md_vars, lb_vars>>

JacNext == Build \/ Call

SpecJac == JacInit /\ [][JacNext]_vars

(***************************************************************************)
(* Properties of classical_jacobian                                        *)
(***************************************************************************)
Supported == {"autograd", "torch", "jax", "tf"}

\* r is one Jacobian structure, that of argument n (counted from 0)
IsArrayWrt(r, n) == r.type = "array" /\ r.wrt = n

\* r is an aggregate holding the Jacobian of every argument, in order
IsAggregate(r) ==
    /\ r.type \in {"tuple", "stacked"}
    /\ Len(r.items) = NumArgs
    /\ \A k \in 1..NumArgs : IsArrayWrt(r.items[k], k - 1)

\* r is a sequence of Jacobian structures, the k-th that of argument seq[k]
IsSequenceFor(r, seq) ==
    /\ r.type = "tuple"
    /\ Len(r.items) = Len(seq)
    /\ \A k \in DOMAIN seq : IsArrayWrt(r.items[k], seq[k])

Called == cj_last # NotCalled

\* C1 (as claimed): classical_jacobian for a QNode whose interface is none of
\* autograd, torch, jax, tf fails with an explicit "unsupported backend" error
\* and never returns None in place of a callable.
C1_UnsupportedBackendFails ==
    (cj_fn # NotBuilt /\ cj_interface \notin Supported) =>
        /\ cj_fn # None
        /\ cj_fn = [kind |-> "raise", exc |-> "unsupported backend"]

\* C2 (as claimed): in each of the four interfaces the built callable returns
\* an aggregate over all arguments for argnum=None, one Jacobian structure for
\* an integer argnum, and for a list argnum a sequence of len(argnum)
\* structures, the k-th that of argument argnum[k].
C2_AggregateInEveryInterface ==
    Called =>
        /\ cj_argnum = None => IsAggregate(cj_last.result)
        /\ cj_argnum.kind = "int" => IsArrayWrt(cj_last.result, cj_argnum.i)
        /\ cj_argnum.kind = "seq" => IsSequenceFor(cj_last.result, cj_argnum.seq)

\* C2 (amended): as above, except that with the jax interface argnum=None
\* gives one Jacobian structure, that of argument 0.
C2_OutputFormat ==
    Called =>
        /\ cj_interface \in Supported
        /\ (cj_argnum = None /\ cj_interface # "jax") => IsAggregate(cj_last.result)
        /\ (cj_argnum = None /\ cj_interface = "jax") => IsArrayWrt(cj_last.result, 0)
        /\ cj_argnum.kind = "int" => IsArrayWrt(cj_last.result, cj_argnum.i)
        /\ cj_argnum.kind = "seq" => IsSequenceFor(cj_last.result, cj_argnum.seq)

C2_Witness ==
    /\ Called
    /\ cj_interface = "jax"
    /\ cj_argnum = None
    /\ cj_last.args = <<1, 1>>
    /\ cj_last.result.type = "array"
    /\ cj_last.result.wrt = 0

\* C9: two calls of the same built callable with the same positional and
\* keyword arguments return the same result, whatever calls were made before
\* each of them.
C9_Deterministic ==
    (cj_ref # NotCalled /\ Called
        /\ cj_ref.args = cj_last.args /\ cj_ref.kwargs = cj_last.kwargs) =>
        cj_ref.result = cj_last.result

C9_Witness ==
    /\ cj_ref # NotCalled /\ Called
    /\ cj_interface = "autograd"
    /\ cj_argnum = SeqArg(<<1, 0>>)
    /\ cj_ref.args = <<1, 0>> /\ cj_last.args = <<1, 0>>
    /\ cj_ref.kwargs = [scale |-> 2] /\ cj_last.kwargs = [scale |-> 2]
    /\ cj_ref.result = cj_last.result
    /\ Len(cj_last.constructs) = 2

\* the Jacobian structures of a result, in order
ArraysOf(r) == IF r.type = "array" THEN <<r>> ELSE r.items

\* the parameters of a tape that are marked trainable
TrainableOf(tape) == SelectSeq(tape.params, LAMBDA p : p.boxed)

\* every Jacobian structure of r is the derivative of exactly the parameters
\* params, in their order, with respect to its argument: the differentiated
\* preprocessing step returned params
DerivativeOf(r, params) ==
    \A k \in DOMAIN ArraysOf(r) :
        ArraysOf(r)[k].d = [j \in DOMAIN params |-> params[j].grad[ArraysOf(r)[k].wrt + 1]]

\* C11 (as claimed): whatever the caller passes, the differentiated
\* preprocessing step returns only the trainable parameters in the autograd,
\* torch and tf variants and all parameters in the jax variant; in the jax
\* variant with argnum unset the Jacobian is that of argument 0 only.
C11_TrainableWhateverPassed ==
    Called =>
        /\ cj_interface \in {"autograd", "torch", "tf"} =>
              DerivativeOf(cj_last.result, TrainableOf(cj_qtape))
        /\ cj_interface = "jax" =>
              /\ DerivativeOf(cj_last.result, cj_qtape.params)
              /\ cj_argnum = None => IsArrayWrt(cj_last.result, 0)

\* C11 (amended): the differentiated preprocessing step returns only the
\* trainable parameters in the torch variant whatever the caller passes, and
\* in the autograd and tf variants unless the caller passes the keyword
\* _trainable_only=False, which makes it return all parameters; it returns
\* all parameters in the jax variant whatever the caller passes; in the jax
\* variant with argnum unset the Jacobian is that of argument 0 only.
C11_PreprocessingOutput ==
    Called =>
        /\ cj_interface = "torch" =>
              DerivativeOf(cj_last.result, TrainableOf(cj_qtape))
        /\ cj_interface \in {"autograd", "tf"} =>
              IF "_trainable_only" \in DOMAIN cj_last.kwargs
                  /\ ~cj_last.kwargs["_trainable_only"]
                  THEN DerivativeOf(cj_last.result, cj_qtape.params)
                  ELSE DerivativeOf(cj_last.result, TrainableOf(cj_qtape))
        /\ cj_interface = "jax" =>
              /\ DerivativeOf(cj_last.result, cj_qtape.params)
              /\ cj_argnum = None => IsArrayWrt(cj_last.result, 0)

C11_Witness ==
    /\ Called
    /\ cj_interface = "tf"
    /\ cj_argnum = IntArg(1)
    /\ cj_last.args = <<1, 1>>
    /\ cj_last.kwargs = [_trainable_only |-> FALSE]
    /\ Len(cj_last.result.d) = Len(cj_qtape.params)
    /\ Len(TrainableOf(cj_qtape)) < Len(cj_qtape.params)

\* the caller's keyword arguments without the internal _trainable_only entry
WithoutFlag(kwargs) == [k \in (DOMAIN kwargs) \ {"_trainable_only"} |-> kwargs[k]]

\* every preprocessing pass of the latest call constructed the QNode from the
\* caller's positional and keyword arguments
PassesGetCallerArguments ==
    /\ Len(cj_last.constructs) >= 1
    /\ \A k \in DOMAIN cj_last.constructs :
          /\ cj_last.constructs[k].args = cj_last.args
          /\ cj_last.constructs[k].kwargs = WithoutFlag(cj_last.kwargs)

\* C12 (as claimed): in each of the four variants every preprocessing pass
\* run by the built callable constructs the QNode from exactly the positional
\* and keyword arguments of the call, the _trainable_only entry aside.
C12_EveryVariantPassesArguments ==
    Called => PassesGetCallerArguments

\* The part of C12 that the code keeps: the autograd, jax and tf variants.
C12_OtherVariantsPassArguments ==
    (Called /\ cj_interface # "torch") => PassesGetCallerArguments

\* The failure behind C12: the torch variant constructs the QNode with no
\* keyword arguments, whatever the caller passed.
C12_TorchDropsKeywords ==
    (Called /\ cj_interface = "torch") =>
        \A k \in DOMAIN cj_last.constructs :
            /\ cj_last.constructs[k].args = cj_last.args
            /\ cj_last.constructs[k].kwargs = <<>>
====
